---- MODULE Spec2Model ----
(***************************************************************************)
(* SyncDog: the event-driven replication engine.                           *)
(*                                                                         *)
(* Two directory trees A and B.  The one-way handler (FileHandler) watches *)
(* A and replicates into B; the mirror handler (MirrorHandler, built on    *)
(* BaseHandler) watches both.  Three kinds of threads run: the watcher's   *)
(* dispatch thread, which hands the queued events one by one to            *)
(* on_any_event; one threading.Timer thread per armed debounce timer,      *)
(* whose callback samples the size and starts the copy or the patch; and   *)
(* the user, who edits the trees and presses stop.  A copy or a patch      *)
(* takes time: it is started by the timer callback (Fire) and completes in *)
(* a later step (Complete), so that events can be handled in between.      *)
(***************************************************************************)
EXTENDS Integers, Sequences, FiniteSets, Bags, TLC

\* ---------------------------------------------------------------- bounds
MaxOps == 2          \* number of edits the user performs
MaxLocks == 1        \* number of times another process opens a file
MaxSize == 2         \* largest file size

\* ------------------------------------------------------------- constants
SIDECAR == ".syncdog"
CREATED == "created"
MODIFIED == "modified"
DELETED == "deleted"
MOVED == "moved"

Sides == {"A", "B"}
Other(side) == IF side = "A" THEN "B" ELSE "A"

\* Relative paths are tuples of path components.
FileRels == {<<"f">>, <<"g">>}
DirRels == {<<"d">>}
UserRels == FileRels \cup DirRels
\* relative_path.with_suffix('.patch') below the sidecar directory
with_suffix_patch(rel) == IF rel = <<"f">> THEN <<SIDECAR, "f.patch">>
                          ELSE IF rel = <<"g">> THEN <<SIDECAR, "g.patch">>
                          ELSE IF rel = <<"d">> THEN <<SIDECAR, "d.patch">>
                          ELSE <<SIDECAR>> \o rel
SidecarRels == {with_suffix_patch(r) : r \in FileRels}

Path(root, rel) == [root |-> root, rel |-> rel]
NoPath == Path("-", <<>>)
TreePaths == {Path(s, r) : s \in Sides, r \in UserRels}
SidecarPaths == {Path(s, r) : s \in Sides, r \in SidecarRels \cup {<<SIDECAR>>}}
AllPaths == TreePaths \cup SidecarPaths

\* '.syncdog' in path.parts
InSidecar(p) == \E i \in DOMAIN p.rel : p.rel[i] = SIDECAR

\* File-system nodes.
NoNode == [kind |-> "none", size |-> 0, ver |-> 0]
DirNode == [kind |-> "dir", size |-> 0, ver |-> 0]
FileNode(s, v) == [kind |-> "file", size |-> s, ver |-> v]
\* one content per size, and a second content of size 1 for the edits that
\* keep the size
Contents == {FileNode(s, 1) : s \in 0..MaxSize} \cup {FileNode(1, 2)}
PatchNode == FileNode(1, 1)     \* a patch file

NoEntry == -1        \* the key is absent from the dict
NoTimer == [st |-> "none", kind |-> "-"]
Timer(kind) == [st |-> "armed", kind |-> kind]

VARIABLES
    mode,            \* "oneway" (FileHandler) or "mirror" (MirrorHandler)
    status,          \* "running" or "stopped"
    fs,              \* the two trees: TreePaths -> node
    sidecar,         \* Sides -> BOOLEAN: the .syncdog directory exists
    patches,         \* Sides -> set of relative paths with a .patch file
    locked,          \* tree paths another process holds open exclusively
    working_files,   \* path -> recorded size, NoEntry when absent
    working_timers,  \* path -> the Timer object stored under that key
    stray,           \* armed Timer objects no table entry refers to
    queue,           \* the watcher's FIFO of events
    inflight,        \* bag of copies and patches started and not finished
    ops,             \* user operations performed so far
    locks,           \* exclusive opens performed so far
    last,            \* history: what the last step was and did
    sinceEvt,        \* history: actions carried out since the last event
    origin,          \* history: who caused the path to be tracked
    seq,             \* history: created, then deleted before the timer
    conflict,        \* history: edits of one file on both sides
    rebuilt,         \* history: the file whose larger copy was deleted
    window,          \* SyncDogWindow: the paths, the mode, the buttons
    handler,         \* main.handler: source, destination, patch_path
    watcher,         \* main.observer, the SyncDogObserver main.py starts
    threads,         \* watcher threads started, and those yet to run
    call,            \* history: the last call of the launcher and its result
    observer         \* the SyncDogObserver of observer.py and its run()

vars == <<mode, status, fs, sidecar, patches, locked, working_files,
          working_timers, stray, queue, inflight, ops, locks, last,
          sinceEvt, origin, seq, conflict, rebuilt, window, handler,
          watcher, threads, call, observer>>

\* the launcher's state, which the replication engine leaves alone
launcher == <<window, handler, watcher, threads, call, observer>>

Watched == IF mode = "oneway" THEN {"A"} ELSE Sides

\* The part of the state a handler or a callback works on, as one record.
\* History fields: cause is the origin ("user" or "engine") of the event
\* being served, done the replication actions the step has carried out,
\* started the copies and patches it has started, raised whether an
\* exception has left the handler or the callback.
St(cause) == [fs |-> fs, sidecar |-> sidecar, patches |-> patches,
              wf |-> working_files, wt |-> working_timers, stray |-> stray,
              queue |-> queue, inflight |-> inflight,
              sinceEvt |-> sinceEvt, origin |-> origin,
              cause |-> cause, done |-> {}, started |-> {}, raised |-> FALSE]

Commit(s) ==
    /\ fs' = s.fs
    /\ sidecar' = s.sidecar
    /\ patches' = s.patches
    /\ working_files' = s.wf
    /\ working_timers' = s.wt
    /\ stray' = s.stray
    /\ queue' = s.queue
    /\ inflight' = s.inflight
    /\ sinceEvt' = s.sinceEvt
    /\ origin' = s.origin


\* ------------------------------------------------------ events, history
Event(type, src, dest, isdir, org) ==
    [event_type |-> type, src_path |-> src, dest_path |-> dest,
     is_directory |-> isdir, origin |-> org]

\* The watcher queues an event for every change below a watched root.
Emit(s, ev) ==
    IF status = "running" /\ ev.src_path.root \in Watched
    THEN [s EXCEPT !.queue = Append(@, ev)]
    ELSE s

\* History: a replication action for source path p was carried out.
Act(s, kind, p) == [s EXCEPT !.done = @ \cup {kind}]

Raise(s) == [s EXCEPT !.raised = TRUE]

\* History: what the tracking of path p goes back to: the engine's own
\* write only if no event of a user's edit of p is being served or queued.
Cause(s, p) ==
    IF \/ s.cause = "user"
       \/ \E i \in DOMAIN s.queue :
             /\ s.queue[i].origin = "user"
             /\ p \in {s.queue[i].src_path, s.queue[i].dest_path}
    THEN "user" ELSE "engine"

Job(p, kind, cause, fresh) ==
    [path |-> p, kind |-> kind, cause |-> cause, fresh |-> fresh]

Start(s, kind, p) ==
    [s EXCEPT !.inflight = @ (+) SetToBag({Job(p, kind, s.cause, TRUE)}),
              !.started = @ \cup {kind}]

\* ------------------------------------------- the engine's file operations
\* The node at a path: the trees hold the user's files, the sidecar
\* directory of a root and the patch files in it are kept apart.
node(s, p) ==
    IF p.rel = <<SIDECAR>>
    THEN IF s.sidecar[p.root] THEN DirNode ELSE NoNode
    ELSE IF InSidecar(p)
    THEN IF s.sidecar[p.root] /\ <<p.rel[2]>> \in s.patches[p.root]
         THEN PatchNode ELSE NoNode
    ELSE s.fs[p]

put(s, p, n) ==
    IF p.rel = <<SIDECAR>>
    THEN [s EXCEPT !.sidecar[p.root] = (n.kind # "none"),
                   !.patches[p.root] = IF n.kind = "none" THEN {} ELSE @]
    ELSE IF InSidecar(p)
    THEN [s EXCEPT !.patches[p.root] =
                       IF n.kind = "none" THEN @ \ {<<p.rel[2]>>}
                       ELSE @ \cup {<<p.rel[2]>>}]
    ELSE [s EXCEPT !.fs[p] = n]

exists(s, p) == node(s, p).kind # "none"
is_file(s, p) == node(s, p).kind = "file"
is_dir(s, p) == node(s, p).kind = "dir"
st_size(s, p) == node(s, p).size

\* shutil.copy2 / bsdiff4.file_patch: the destination gets the content
EngWrite(s, p, n) ==
    Emit(put(s, p, n),
         Event(IF exists(s, p) THEN MODIFIED ELSE CREATED, p, NoPath, FALSE,
               "engine"))

\* Path.unlink / os.remove / shutil.rmtree
EngRemove(s, p) ==
    Emit(put(s, p, NoNode),
         Event(DELETED, p, NoPath, is_dir(s, p), "engine"))

\* shutil.move
EngMove(s, old, new) ==
    Emit(put(put(s, new, node(s, old)), old, NoNode),
         Event(MOVED, old, new, is_dir(s, old), "engine"))

\* Path.mkdir(parents=True, exist_ok=True)
EngMkdir(s, p) ==
    IF exists(s, p) THEN s
    ELSE Act(Emit(put(s, p, DirNode),
                  Event(CREATED, p, NoPath, TRUE, "engine")), "mkdir", p)

\* bsdiff4.file_diff writes the patch file into the sidecar directory
EngWritePatch(s, side, rel) ==
    EngWrite(s, Path(side, with_suffix_patch(rel)), PatchNode)

\* patch_path.mkdir(parents=True, exist_ok=True)
EngMkSidecar(s, side) ==
    IF s.sidecar[side] THEN s
    ELSE Emit(put(s, Path(side, <<SIDECAR>>), DirNode),
              Event(CREATED, Path(side, <<SIDECAR>>), NoPath, TRUE, "engine"))

\* shutil.rmtree(patch_path)
RmSidecar(s, side) == put(s, Path(side, <<SIDECAR>>), NoNode)

\* ------------------------------------------------------------ BaseHandler
get_dest_path(source_path, dest) == Path(dest, source_path.rel)

\* open('rb'), seek to the end, tell; 0 when the open is denied
get_file_size(s, p) == IF p \in locked \/ ~is_file(s, p) THEN 0 ELSE st_size(s, p)

\* dict.get(key): falsy when the key is absent or the value is 0
truthy_size(s, p) == s.wf[p] # NoEntry /\ s.wf[p] # 0

start_working_timer(s, kind, p) ==
    [s EXCEPT !.wt[p] = Timer(kind)]

track_work_file(s, kind, p) ==
    IF ~exists(s, p) THEN s
    ELSE start_working_timer(
            [s EXCEPT !.wf[p] = get_file_size(s, p),
                      !.origin[p] = Cause(s, p)],
            kind, p)

untrack_work_file(s, p) ==
    [s EXCEPT !.wf[p] = IF truthy_size(s, p) THEN NoEntry ELSE @,
              !.wt[p] = NoTimer]

create_directory(s, p, dest) == EngMkdir(s, get_dest_path(p, dest))

delete(s, p, dest) ==
    LET dest_path == get_dest_path(p, dest)
    IN  IF ~exists(s, dest_path) THEN s
        ELSE IF dest_path \in locked THEN Raise(s)
        ELSE Act(EngRemove(s, dest_path), "delete", p)

rename(s, ev, dest) ==
    LET old == get_dest_path(ev.src_path, dest)
        new == get_dest_path(ev.dest_path, dest)
    IN  IF exists(s, new) THEN s
        ELSE IF ~exists(s, old) \/ old \in locked THEN Raise(s)
        ELSE Act(EngMove(s, old, new), "move", ev.src_path)


\* if diff_file.exists(): diff_file.unlink()
unlink_diff(s, side, rel) ==
    LET diff_file == Path(side, with_suffix_patch(rel))
    IN  IF exists(s, diff_file) THEN EngRemove(s, diff_file) ELSE s

\* History: a copy or a patch started after the last event on its path
\* has been carried out.
Count(s, j) ==
    IF j.fresh
    THEN [s EXCEPT !.sinceEvt[j.path] = IF @ < 2 THEN @ + 1 ELSE @]
    ELSE s

\* A sync_file that patches without comparing the sizes of the two files.
sync_file_larger_unchecked(s, p) ==
    LET dest_path == get_dest_path(p, Other(p.root))
    IN  IF ~exists(s, p) THEN s
        ELSE IF is_dir(s, p) THEN EngMkdir(s, dest_path)
        ELSE IF ~exists(s, dest_path)
             THEN track_work_file(s, CREATED, p)
        ELSE Start(s, "patch", p)

\* sync_file up to the call of bsdiff4: the tests on the destination
sync_file(s, p) ==
    LET dest_path == get_dest_path(p, Other(p.root))
    IN  IF ~exists(s, p) THEN s
        ELSE IF is_dir(s, p) THEN EngMkdir(s, dest_path)
        ELSE IF ~exists(s, dest_path)
             THEN track_work_file(s, CREATED, p)
        ELSE IF st_size(s, dest_path) > st_size(s, p)
             THEN IF dest_path \in locked
                  THEN start_working_timer(s, MODIFIED, p)
                  ELSE track_work_file(
                         unlink_diff(
                           Act(EngRemove(s, dest_path), "delete", p),
                           dest_path.root, p.rel),
                         CREATED, p)
        ELSE Start(s, "patch", p)

\* A create_complete that dispatches without comparing the sampled size
\* with the recorded one.
create_complete_size_unchecked(s, kind, p) ==
    IF ~exists(s, p) THEN s
    ELSE IF kind = CREATED THEN Start(s, "copy", p)
    ELSE sync_file(s, p)

\* The Timer's callback, up to the start of the copy or the patch.
create_complete(s, kind, p) ==
    IF ~exists(s, p) THEN s
    ELSE LET current_size == get_file_size(s, p)
             previous_size == IF s.wf[p] = NoEntry THEN 0 ELSE s.wf[p]
         IN  IF current_size = previous_size
             THEN IF kind = CREATED THEN Start(s, "copy", p)
                  ELSE sync_file(s, p)
             ELSE start_working_timer([s EXCEPT !.wf[p] = current_size],
                                      kind, p)

\* create_file: shutil.copy2 and untrack; on PermissionError create_complete
\* tracks the file again.
create_file(s, j) ==
    LET p == j.path
        dest_path == get_dest_path(p, Other(p.root))
    IN  IF ~is_file(s, p) THEN Raise(s)
        ELSE IF p \in locked \/ dest_path \in locked
             THEN track_work_file(s, CREATED, p)
        ELSE untrack_work_file(
                 Count(Act(EngWrite(s, dest_path, node(s, p)), "copy", p), j), p)

\* A sync_file whose 'except IOError' clause neither recreates the patch
\* directory nor starts the timer again.
apply_patch_ioerror_dropped(s, j) ==
    LET p == j.path
        dest_path == get_dest_path(p, Other(p.root))
        side == dest_path.root
    IN  IF p \in locked \/ dest_path \in locked
        THEN start_working_timer(s, MODIFIED, p)
        ELSE IF ~is_file(s, p) \/ ~is_file(s, dest_path) \/ ~s.sidecar[side]
        THEN s
        ELSE untrack_work_file(
               untrack_work_file(
                 Count(Act(EngWrite(EngWritePatch(s, side, p.rel),
                                    dest_path, node(s, p)), "patch", p), j),
                 p),
               dest_path)

\* sync_file from the call of bsdiff4.file_diff on, with its except clauses
apply_patch(s, j) ==
    LET p == j.path
        dest_path == get_dest_path(p, Other(p.root))
        side == dest_path.root
    IN  IF p \in locked \/ dest_path \in locked
        THEN start_working_timer(s, MODIFIED, p)
        ELSE IF ~is_file(s, p) \/ ~is_file(s, dest_path) \/ ~s.sidecar[side]
        THEN start_working_timer(EngMkSidecar(s, side), MODIFIED, p)
        ELSE untrack_work_file(
               untrack_work_file(
                 Count(Act(EngWrite(EngWritePatch(s, side, p.rel),
                                    dest_path, node(s, p)), "patch", p), j),
                 p),
               dest_path)

\* ---------------------------------------------------------- MirrorHandler
\* get_directories: the root the path descends from
get_directories(p) == p.root

\* An on_any_event whose modified branch does not compare the two sizes.
mirror_dispatch_size_unchecked(s, ev) ==
    LET source_path == ev.src_path
        source == get_directories(source_path)
        dest == Other(source)
        dest_path == get_dest_path(source_path, dest)
    IN  IF truthy_size(s, source_path) THEN s
        ELSE IF ev.event_type = CREATED
             THEN IF ev.is_directory
                  THEN create_directory(s, source_path, dest)
                  ELSE track_work_file(s, CREATED, source_path)
        ELSE IF ev.event_type = DELETED THEN delete(s, source_path, dest)
        ELSE IF ev.event_type = MOVED THEN rename(s, ev, dest)
        ELSE IF ev.is_directory THEN s
        ELSE IF exists(s, dest_path)
             THEN IF ~exists(s, source_path) THEN Raise(s)
                  ELSE track_work_file(
                         [s EXCEPT !.wf[dest_path] = st_size(s, dest_path)],
                         MODIFIED, source_path)
        ELSE track_work_file(s, MODIFIED, source_path)

\* on_any_event from the test of working_files on
mirror_dispatch(s, ev) ==
    LET source_path == ev.src_path
        source == get_directories(source_path)
        dest == Other(source)
        dest_path == get_dest_path(source_path, dest)
    IN  IF truthy_size(s, source_path) THEN s
        ELSE IF ev.event_type = CREATED
             THEN IF ev.is_directory
                  THEN create_directory(s, source_path, dest)
                  ELSE track_work_file(s, CREATED, source_path)
        ELSE IF ev.event_type = DELETED THEN delete(s, source_path, dest)
        ELSE IF ev.event_type = MOVED THEN rename(s, ev, dest)
        ELSE IF ev.is_directory THEN s
        ELSE IF exists(s, dest_path)
             THEN IF ~exists(s, source_path) THEN Raise(s)
                  ELSE IF st_size(s, dest_path) = st_size(s, source_path)
                       THEN s
                  ELSE track_work_file(
                         [s EXCEPT !.wf[dest_path] = st_size(s, dest_path)],
                         MODIFIED, source_path)
        ELSE track_work_file(s, MODIFIED, source_path)

\* An on_any_event without the test for '.syncdog' in the path.
mirror_on_any_event_sidecar_unchecked(s, ev) == mirror_dispatch(s, ev)

mirror_on_any_event(s, ev) ==
    IF InSidecar(ev.src_path) THEN s ELSE mirror_dispatch(s, ev)

\* MirrorHandler.cleanup: for path in [patch_path_a, patch_path_b], remove
\* the directory if path is set and exists; 'path = None' rebinds the loop
\* variable and leaves the two attributes as they are.
mirror_cleanup(s) ==
    LET rmtree(t, path) == IF path # "none" /\ t.sidecar[path]
                           THEN RmSidecar(t, path) ELSE t
    IN  rmtree(rmtree(s, handler.patch_path_a), handler.patch_path_b)


\* ------------------------------------------------------------ FileHandler
\* The one-way handler: self.source is A, self.destination is B and
\* self.patch_path is B/.syncdog.  Its tables copying_files and
\* copying_timers are the variables working_files and working_timers.
fh_source == "A"
fh_destination == "B"

start_copying_timer(s, kind, p) ==
    [s EXCEPT !.wt[p] = Timer(kind)]

track_file_copy(s, kind, p) ==
    IF ~exists(s, p) THEN s
    ELSE start_copying_timer(
            [s EXCEPT !.wf[p] = get_file_size(s, p),
                      !.origin[p] = Cause(s, p)],
            kind, p)

untrack_file_copy(s, p) ==
    [s EXCEPT !.wf[p] = IF truthy_size(s, p) THEN NoEntry ELSE @,
              !.wt[p] = NoTimer]

copy_directory(s, p) == EngMkdir(s, get_dest_path(p, fh_destination))

fh_delete(s, p) ==
    LET destination == get_dest_path(p, fh_destination)
    IN  IF ~exists(s, destination) THEN s
        ELSE IF destination \in locked THEN Raise(s)
        ELSE Act(EngRemove(s, destination), "delete", p)

fh_rename(s, ev) ==
    LET old == get_dest_path(ev.src_path, fh_destination)
        new == get_dest_path(ev.dest_path, fh_destination)
    IN  IF ~exists(s, old) \/ old \in locked THEN Raise(s)
        ELSE Act(EngMove(s, old, new), "move", ev.src_path)

\* sync_file up to the call of bsdiff4; every exception is logged
fh_sync_file(s, p) ==
    LET dest_file == get_dest_path(p, fh_destination)
    IN  IF ~exists(s, p) THEN s
        ELSE IF ~exists(s, dest_file) THEN track_file_copy(s, CREATED, p)
        ELSE IF st_size(s, dest_file) > st_size(s, p)
             THEN IF dest_file \in locked THEN s
                  ELSE track_file_copy(
                         unlink_diff(
                           Act(EngRemove(s, dest_file), "delete", p),
                           fh_destination, p.rel),
                         CREATED, p)
        ELSE IF is_dir(s, p) THEN s
        ELSE Start(s, "patch", p)

\* A check_copying_complete without the test that the file still exists.
check_copying_complete_exists_unchecked(s, kind, p) ==
    LET current_size == get_file_size(s, p)
        previous_size == IF s.wf[p] = NoEntry THEN 0 ELSE s.wf[p]
    IN  IF current_size = previous_size
        THEN IF kind = CREATED THEN Start(s, "copy", p)
             ELSE fh_sync_file(s, p)
        ELSE start_copying_timer([s EXCEPT !.wf[p] = current_size], kind, p)

check_copying_complete(s, kind, p) ==
    IF ~exists(s, p) THEN s
    ELSE LET current_size == get_file_size(s, p)
             previous_size == IF s.wf[p] = NoEntry THEN 0 ELSE s.wf[p]
         IN  IF current_size = previous_size
             THEN IF kind = CREATED THEN Start(s, "copy", p)
                  ELSE fh_sync_file(s, p)
             ELSE start_copying_timer([s EXCEPT !.wf[p] = current_size],
                                      kind, p)

\* copy_file: shutil.copy2 and untrack; PermissionError is suppressed by
\* check_copying_complete
copy_file(s, j) ==
    LET p == j.path
        destination_file == get_dest_path(p, fh_destination)
    IN  IF ~is_file(s, p) THEN Raise(s)
        ELSE IF p \in locked \/ destination_file \in locked THEN s
        ELSE untrack_file_copy(
               Count(Act(EngWrite(s, destination_file, node(s, p)), "copy", p),
                     j), p)

\* sync_file from bsdiff4.file_diff on; every exception is logged
fh_apply_patch(s, j) ==
    LET p == j.path
        dest_file == get_dest_path(p, fh_destination)
    IN  IF \/ p \in locked \/ dest_file \in locked
           \/ ~is_file(s, p) \/ ~is_file(s, dest_file)
           \/ ~s.sidecar[fh_destination]
        THEN s
        ELSE untrack_file_copy(
               Count(Act(EngWrite(EngWritePatch(s, fh_destination, p.rel),
                                  dest_file, node(s, p)), "patch", p), j),
               p)

fh_on_any_event(s, ev) ==
    LET src_path == ev.src_path
    IN  IF InSidecar(src_path) THEN s
        ELSE IF ev.event_type = CREATED
             THEN IF ev.is_directory THEN copy_directory(s, src_path)
                  ELSE track_file_copy(s, CREATED, src_path)
        ELSE IF ev.event_type = DELETED THEN fh_delete(s, src_path)
        ELSE IF ev.event_type = MOVED THEN fh_rename(s, ev)
        ELSE IF truthy_size(s, src_path) THEN s
        ELSE track_file_copy(s, MODIFIED, src_path)

\* FileHandler.cleanup
fh_cleanup(s) == RmSidecar(s, fh_destination)


\* --------------------------------------------------------------- launcher
\* The window (window.py), the slots of main.py it is connected to, the
\* handler and the observer main.py configures, and the watcher threads
\* main.py starts.  A directory the user can choose is one of the roots.
MaxStarts == 2       \* number of start requests

None == "none"
IDLE == "idle"
ATOB == "atob"
BTOA == "btoa"
MIRROR == "mirror"
SyncModes == {ATOB, BTOA, MIRROR}
Dirs == Sides
Cancelled == ""      \* the directory dialog was closed without a choice

NewWindow == [alpha_path |-> None, beta_path |-> None, mode |-> IDLE,
              text |-> "Synchronize", action_enabled |-> FALSE,
              paths_enabled |-> TRUE]
NewHandler == [source |-> None, destination |-> None, patch_path |-> None,
               dir_a |-> None, dir_b |-> None,
               patch_path_a |-> None, patch_path_b |-> None]
NewWatcher == [directory |-> None, is_running |-> FALSE, thread |-> "new",
               watching |-> {}]
NoThreads == [started |-> 0, pending |-> 0]
NoCall == [op |-> "init", by |-> "-", mode |-> IDLE, source |-> None,
           destination |-> None, directory |-> {}, was_running |-> FALSE,
           raised |-> FALSE]

\* The launcher's state as one record; raised: an exception has left the
\* call.
App == [window |-> window, handler |-> handler, watcher |-> watcher,
        threads |-> threads, sidecar |-> sidecar, raised |-> FALSE]

AppCommit(a) ==
    /\ window' = a.window
    /\ handler' = a.handler
    /\ watcher' = a.watcher
    /\ threads' = a.threads
    /\ sidecar' = a.sidecar

AppRaise(a) == [a EXCEPT !.raised = TRUE]

\* SyncDogWindow
toggle_buttons_enabled(w, enabled, start_action) ==
    IF start_action THEN [w EXCEPT !.paths_enabled = enabled]
    ELSE [w EXCEPT !.action_enabled = enabled]

\* A state_ready without the comparison of the two paths.
state_ready_equal_unchecked(w) ==
    ~(w.alpha_path = None \/ w.beta_path = None \/ w.mode = IDLE)

state_ready(w) ==
    IF w.alpha_path = None \/ w.beta_path = None \/ w.mode = IDLE THEN FALSE
    ELSE IF w.alpha_path = w.beta_path THEN FALSE
    ELSE TRUE

button_path_action(w, button, current_path) ==
    LET w1 == IF current_path = Cancelled THEN w
              ELSE IF button = "alpha"
                   THEN [w EXCEPT !.alpha_path = current_path]
              ELSE [w EXCEPT !.beta_path = current_path]
    IN  toggle_buttons_enabled(w1, state_ready(w1), FALSE)

mode_switch(w, m) ==
    LET w1 == [w EXCEPT !.mode = m]
    IN  toggle_buttons_enabled(w1, state_ready(w1), FALSE)

set_directories(w) ==
    IF w.mode = BTOA
    THEN [mode |-> w.mode, source |-> w.beta_path,
          destination |-> w.alpha_path]
    ELSE [mode |-> w.mode, source |-> w.alpha_path,
          destination |-> w.beta_path]

\* FileHandler.change_source, change_destination, cleanup
change_source(a, source) == [a EXCEPT !.handler.source = source]

change_destination(a, dest) ==
    LET old == a.handler.patch_path
        a1 == IF old # None /\ a.sidecar[old]
              THEN [a EXCEPT !.sidecar[old] = FALSE] ELSE a
    IN  [a1 EXCEPT !.handler.destination = dest,
                   !.handler.patch_path = dest,
                   !.sidecar[dest] = TRUE]

\* self.patch_path.exists() raises AttributeError while patch_path is None
handler_cleanup(a) ==
    LET patch_path == a.handler.patch_path
    IN  IF patch_path = None THEN AppRaise(a)
        ELSE IF a.sidecar[patch_path]
             THEN [a EXCEPT !.sidecar[patch_path] = FALSE]
        ELSE a

\* SyncDogObserver (syncdog_observer.py).  thread is the state of the
\* watchdog Observer thread it owns: "new", "cancelled" (stopped before it
\* was started), "started" or "stopped".  observer.stop() ends a started
\* thread and drops its watches; observer.join() raises RuntimeError on a
\* thread that was never started, before _is_running is reset.
watcher_stop(a) ==
    LET th == a.watcher.thread
        a1 == [a EXCEPT !.watcher.thread =
                           IF th = "started" THEN "stopped"
                           ELSE IF th = "new" THEN "cancelled" ELSE th,
                        !.watcher.watching = {}]
    IN  IF th \in {"new", "cancelled"} THEN AppRaise(a1)
        ELSE [a1 EXCEPT !.watcher.is_running = FALSE]

change_directory(a, new_directory) ==
    LET a1 == IF a.watcher.is_running THEN watcher_stop(a) ELSE a
    IN  IF a1.raised THEN a1
        ELSE [a1 EXCEPT !.watcher.directory = new_directory]

\* run(), up to the join: schedule, observer.start(), set the flag.  The
\* start of a thread that was started before raises RuntimeError, and so
\* does the start of the watch of no directory; the exception ends the
\* thread run() is the target of.
watcher_run(a) ==
    LET th == a.watcher.thread
        dir == a.watcher.directory
    IN  IF dir = None THEN a
        ELSE IF th = "new"
             THEN [a EXCEPT !.watcher.thread = "started",
                            !.watcher.watching = @ \cup {dir},
                            !.watcher.is_running = TRUE]
        ELSE IF th = "cancelled"
             THEN [a EXCEPT !.watcher.thread = "stopped",
                            !.watcher.is_running = TRUE]
        ELSE IF th = "started"
             THEN [a EXCEPT !.watcher.watching = @ \cup {dir}]
        ELSE a

\* main.py
start_syncing(a, m, source, destination) ==
    LET a1 == IF m = ATOB
              THEN change_directory(
                     change_destination(change_source(a, source),
                                        destination),
                     source)
              ELSE IF m = BTOA
              THEN change_directory(
                     change_destination(change_source(a, destination),
                                        source),
                     destination)
              ELSE a
    IN  IF a1.raised THEN a1
        ELSE [a1 EXCEPT !.threads.started = @ + 1,
                        !.threads.pending = @ + 1]

stop_observer(a) ==
    LET a1 == watcher_stop(a)
    IN  IF a1.raised THEN a1 ELSE handler_cleanup(a1)


\* SyncDogObserver (observer.py).  directory is the set of roots given (a
\* path, or the list of two paths; empty for None); pc is the position of
\* the thread inside run(): "idle" before the first call, "begun" once the
\* Observer is made, "scheduled", "loop" once the observer is started and
\* the flag set, "stopping" once the loop is left and the observer stopped
\* and joined, "returned".
NewObserver == [directory |-> {}, is_running |-> FALSE,
                stop_event |-> FALSE, pc |-> "idle", watching |-> {}]
Directories == {{"A"}, {"B"}, {"A", "B"}}
InRun == {"begun", "scheduled", "loop", "stopping"}

set_directory(o, new_directory) ==
    IF o.is_running THEN [o |-> o, raised |-> TRUE]
    ELSE [o |-> [o EXCEPT !.directory = new_directory], raised |-> FALSE]


\* ------------------------------------------------------------------ Init
\* The engine has been started: the handler is configured, the sidecar
\* directories exist, the watcher runs.  The trees start equal: empty, or
\* with file f already replicated.
\* FileHandler with change_source(A) and change_destination(B)
OneWayHandler == [NewHandler EXCEPT !.source = fh_source,
                                    !.destination = fh_destination,
                                    !.patch_path = fh_destination]
\* MirrorHandler(dir_a=A, dir_b=B): set_dir_a and set_dir_b
MirrorHandler == [NewHandler EXCEPT !.dir_a = "A", !.dir_b = "B",
                                    !.patch_path_a = "A",
                                    !.patch_path_b = "B"]

InitNodes == {NoNode, FileNode(1, 1)}
NoConflict == [st |-> "none", side |-> "-", node |-> NoNode]
NoStep == [op |-> "init", path |-> NoPath, kind |-> "-", cause |-> "-",
           prev |-> 0, cur |-> 0, fresh |-> FALSE,
           done |-> {}, started |-> {}, raised |-> FALSE]

Init ==
    /\ mode \in {"oneway", "mirror"}
    /\ status = "running"
    /\ \E n \in InitNodes :
          fs = [p \in TreePaths |-> IF p.rel = <<"f">> THEN n ELSE NoNode]
    /\ sidecar = [s \in Sides |-> (mode = "mirror" \/ s = fh_destination)]
    /\ patches = [s \in Sides |-> {}]
    /\ locked = {}
    /\ working_files = [p \in AllPaths |-> NoEntry]
    /\ working_timers = [p \in AllPaths |-> NoTimer]
    /\ stray = {}
    /\ queue = <<>>
    /\ inflight = EmptyBag
    /\ ops = 0
    /\ locks = 0
    /\ last = NoStep
    /\ sinceEvt = [p \in TreePaths |-> 0]
    /\ origin = [p \in AllPaths |-> "-"]
    /\ seq = [p \in TreePaths |-> "-"]
    /\ conflict = [r \in FileRels |-> NoConflict]
    /\ rebuilt = NoPath
    /\ window = NewWindow
    /\ handler = IF mode = "mirror" THEN MirrorHandler ELSE OneWayHandler
    /\ watcher = NewWatcher
    /\ threads = NoThreads
    /\ call = NoCall
    /\ observer = NewObserver

\* ---------------------------------------------------------------- history
\* seq[p] is "c" once a created event for file p has been handled and its
\* timer has not fired, "cd" once a deleted event for p has followed and
\* found the file gone; a path that comes into existence again starts
\* afresh.
SeqAfter(old, new, p, how) ==
    IF old[p].kind = "none" /\ new[p].kind # "none" THEN "-"
    ELSE IF how = "created" THEN "c"
    ELSE IF how = "deleted"
         THEN (IF seq[p] = "c" /\ new[p].kind = "none" THEN "cd" ELSE "-")
    ELSE IF how = "modified" THEN (IF seq[p] = "c" THEN "c" ELSE "-")
    ELSE IF how = "moved" THEN "-"
    ELSE IF how = "fire" THEN (IF seq[p] = "c" THEN "-" ELSE seq[p])
    ELSE seq[p]

\* how the step bears on path p: the event handled for it, or the timer
SeqStep(new, target, how) ==
    seq' = [p \in TreePaths |->
               SeqAfter(fs, new, p, IF p \in target THEN how ELSE "-")]

\* rebuilt is the file for which the timer's callback has found the
\* destination larger and deleted it, until the user's next step.
Record(s, op, p, kind, prev, cur, fresh) ==
    /\ last' = [op |-> op, path |-> p, kind |-> kind, cause |-> s.cause,
                prev |-> prev, cur |-> cur, fresh |-> fresh,
                done |-> s.done, started |-> s.started, raised |-> s.raised]
    /\ rebuilt' = IF op = "fire" /\ kind = MODIFIED /\ "delete" \in s.done
                  THEN p
                  ELSE IF op = "stop" THEN NoPath ELSE rebuilt

\* ------------------------------------------------------------- the user
WriteRels == {<<"f">>}      \* files the user writes; g appears by renaming
UserPaths == {p \in TreePaths : p.root \in Watched}

UserEmit(ev) ==
    queue' = IF status = "running" /\ ev.src_path.root \in Watched
             THEN Append(queue, ev) ELSE queue

\* The user edits once the watcher has delivered the events of the edits
\* before.
CanEdit == ops < MaxOps /\ queue = <<>>

\* the modified event of the edit on path p is queued, or its timer runs
InWindow(p) ==
    \/ working_timers[p].st = "armed"
    \/ \E i \in DOMAIN queue :
          /\ queue[i].src_path = p
          /\ queue[i].event_type = MODIFIED
          /\ queue[i].origin = "user"

Forget(rels) == [r \in FileRels |-> IF r \in rels THEN NoConflict
                                    ELSE conflict[r]]

\* what a user's step leaves alone, and its history
UserStep(kind, ps) ==
    /\ ops' = ops + 1
    /\ UNCHANGED locks
    /\ last' = [NoStep EXCEPT !.op = "user", !.cause = "user"]
    /\ rebuilt' = NoPath
    /\ origin' = [p \in AllPaths |-> IF p \in ps THEN "user" ELSE origin[p]]
    /\ UNCHANGED <<mode, status, sidecar, patches, working_files,
                   working_timers, stray, inflight, sinceEvt, launcher>>

UserCreate ==
    \E p \in UserPaths, c \in Contents :
        /\ CanEdit
        /\ p.rel \in WriteRels
        /\ fs[p].kind = "none"
        /\ fs' = [fs EXCEPT ![p] = c]
        /\ UserEmit(Event(CREATED, p, NoPath, FALSE, "user"))
        /\ conflict' = Forget({p.rel})
        /\ SeqStep(fs', {}, "-")
        /\ UserStep("create", {p})
        /\ UNCHANGED locked

\* A write to an existing file; the writer may be the process that holds
\* the file open.
UserModify ==
    \E p \in UserPaths, c \in Contents :
        /\ CanEdit
        /\ p.rel \in WriteRels
        /\ fs[p].kind = "file"
        /\ c # fs[p]
        /\ fs' = [fs EXCEPT ![p] = c]
        /\ UserEmit(Event(MODIFIED, p, NoPath, FALSE, "user"))
        /\ LET q == Path(Other(p.root), p.rel)
               cf == conflict[p.rel]
           IN  conflict' = [conflict EXCEPT ![p.rel] =
                   IF /\ cf.st = "one" /\ cf.side = q.root /\ InWindow(q)
                      /\ mode = "mirror"
                   THEN [st |-> "both", side |-> p.root, node |-> c]
                   ELSE [st |-> "one", side |-> p.root, node |-> c]]
        /\ SeqStep(fs', {}, "-")
        /\ UserStep("modify", {p})
        /\ UNCHANGED locked

UserDelete ==
    \E p \in UserPaths :
        /\ CanEdit
        /\ fs[p].kind # "none"
        /\ p \notin locked
        /\ fs' = [fs EXCEPT ![p] = NoNode]
        /\ UserEmit(Event(DELETED, p, NoPath, fs[p].kind = "dir", "user"))
        /\ conflict' = Forget({p.rel})
        /\ SeqStep(fs', {}, "-")
        /\ UserStep("delete", {p})
        /\ UNCHANGED locked

UserMove ==
    \E p \in UserPaths, q \in UserPaths :
        /\ CanEdit
        /\ p.root = q.root
        /\ p.rel \in FileRels /\ q.rel \in FileRels
        /\ fs[p].kind = "file" /\ fs[q].kind = "none"
        /\ p \notin locked
        /\ fs' = [fs EXCEPT ![q] = fs[p], ![p] = NoNode]
        /\ UserEmit(Event(MOVED, p, q, FALSE, "user"))
        /\ conflict' = Forget({p.rel, q.rel})
        /\ SeqStep(fs', {}, "-")
        /\ UserStep("move", {p, q})
        /\ UNCHANGED locked

UserMkdir ==
    \E p \in UserPaths :
        /\ CanEdit
        /\ p.rel \in DirRels
        /\ fs[p].kind = "none"
        /\ fs' = [fs EXCEPT ![p] = DirNode]
        /\ UserEmit(Event(CREATED, p, NoPath, TRUE, "user"))
        /\ SeqStep(fs', {}, "-")
        /\ UserStep("mkdir", {p})
        /\ UNCHANGED <<locked, conflict>>

\* Another process holds a file open exclusively from before the user's
\* edits, and closes it at any time.
LockFile ==
    \E p \in TreePaths :
        /\ locks < MaxLocks
        /\ ops = 0
        /\ fs[p].kind = "file"
        /\ p \notin locked
        /\ locked' = locked \cup {p}
        /\ locks' = locks + 1
        /\ last' = [NoStep EXCEPT !.op = "user", !.cause = "user"]
        /\ UNCHANGED <<mode, status, fs, sidecar, patches, working_files,
                       working_timers, stray, queue, inflight, ops, sinceEvt,
                       origin, seq, conflict, rebuilt, launcher>>

UnlockFile ==
    \E p \in locked :
        /\ locked' = locked \ {p}
        /\ last' = [NoStep EXCEPT !.op = "user", !.cause = "user"]
        /\ UNCHANGED <<mode, status, fs, sidecar, patches, working_files,
                       working_timers, stray, queue, inflight, ops, locks,
                       sinceEvt, origin, seq, conflict, rebuilt, launcher>>

\* The user touches a file of a .syncdog directory below a watched root.
UserSidecar ==
    \E side \in Watched, type \in {CREATED, MODIFIED, DELETED, MOVED} :
        /\ CanEdit
        /\ LET p == Path(side, with_suffix_patch(<<"f">>))
               q == Path(side, with_suffix_patch(<<"g">>))
           IN  UserEmit(Event(type, p, IF type = MOVED THEN q ELSE NoPath,
                              FALSE, "user"))
        /\ UserStep("sidecar", {})
        /\ UNCHANGED <<fs, locked, conflict, seq>>

\* ------------------------------------------------------------ the engine
\* History kept when an event is handed to the handler: the count of
\* actions since the last event on its paths starts again, and the copies
\* and patches under way for them were started before this event.
Received(s, ev) ==
    LET ps == {ev.src_path, ev.dest_path} \cap TreePaths
        old == BagToSet(s.inflight)
        stale(j) == IF j.path \in ps THEN [j EXCEPT !.fresh = FALSE] ELSE j
    IN  [s EXCEPT
           !.queue = Tail(@),
           !.sinceEvt = [p \in TreePaths |-> IF p \in ps THEN 0 ELSE @[p]],
           !.inflight = [j \in {stale(k) : k \in old} |->
                            LET same == {k \in old : stale(k) = j}
                                Sum[S \in SUBSET same] ==
                                    IF S = {} THEN 0
                                    ELSE LET k == CHOOSE k \in S : TRUE
                                         IN  s.inflight[k] + Sum[S \ {k}]
                            IN  Sum[same]]]

\* The dispatch thread hands the next event to the handler.
HandleEvent ==
    /\ status = "running"
    /\ queue # <<>>
    /\ LET ev == Head(queue)
           s0 == Received(St(ev.origin), ev)
           s1 == IF mode = "mirror" THEN mirror_on_any_event(s0, ev)
                 ELSE fh_on_any_event(s0, ev)
       IN  /\ Commit(s1)
           /\ Record(s1, "event", ev.src_path, ev.event_type, 0, 0, FALSE)
           /\ SeqStep(s1.fs, {ev.src_path, ev.dest_path} \cap TreePaths,
                      IF ev.event_type = CREATED /\ ev.is_directory
                      THEN "moved" ELSE ev.event_type)
    /\ UNCHANGED <<mode, status, locked, ops, locks, conflict, launcher>>

\* The armed timers: those the table refers to, and the strays.
ArmedTimers ==
    {[path |-> p, kind |-> working_timers[p].kind, ref |-> TRUE] :
        p \in {q \in AllPaths : working_timers[q].st = "armed"}}
    \cup {[path |-> t.path, kind |-> t.kind, ref |-> FALSE] : t \in stray}

\* A debounce timer expires and its callback runs.
Fire ==
    \E t \in ArmedTimers :
        /\ LET s == St(origin[t.path])
               s0 == IF t.ref THEN [s EXCEPT !.wt[t.path].st = "dead"]
                     ELSE [s EXCEPT !.stray = @ \ {[path |-> t.path,
                                                    kind |-> t.kind]}]
               s1 == IF mode = "mirror"
                     THEN create_complete(s0, t.kind, t.path)
                     ELSE check_copying_complete(s0, t.kind, t.path)
           IN  /\ Commit(s1)
               /\ Record(s1, "fire", t.path, t.kind, working_files[t.path],
                         IF ~exists(s, t.path) THEN NoEntry
                         ELSE get_file_size(s, t.path), FALSE)
               /\ SeqStep(s1.fs, {t.path}, "fire")
        /\ UNCHANGED <<mode, status, locked, ops, locks, conflict, launcher>>

\* A copy or a patch that was started comes to its end.
Complete ==
    \E j \in BagToSet(inflight) :
        /\ LET s == St(j.cause)
               s0 == [s EXCEPT !.inflight = @ (-) SetToBag({j})]
               s1 == IF mode = "mirror"
                     THEN IF j.kind = "copy" THEN create_file(s0, j)
                          ELSE apply_patch(s0, j)
                     ELSE IF j.kind = "copy" THEN copy_file(s0, j)
                          ELSE fh_apply_patch(s0, j)
           IN  /\ Commit(s1)
               /\ Record(s1, "complete", j.path, j.kind, 0, 0, j.fresh)
               /\ SeqStep(s1.fs, {}, "-")
        /\ UNCHANGED <<mode, status, locked, ops, locks, conflict, launcher>>

\* stop_observer: observer.stop() ends the dispatch thread, the events
\* still queued are never delivered; then handler.cleanup().
Stop ==
    /\ status = "running"
    /\ ops < MaxOps
    /\ status' = "stopped"
    /\ ops' = ops + 1
    /\ LET s == [St("user") EXCEPT !.queue = <<>>]
           s1 == IF mode = "mirror" THEN mirror_cleanup(s) ELSE fh_cleanup(s)
       IN  /\ Commit(s1)
           /\ Record(s1, "stop", NoPath, "-", 0, 0, FALSE)
    /\ UNCHANGED <<mode, locked, locks, conflict, seq, launcher>>

Next ==
    \/ UserCreate
    \/ UserModify
    \/ UserDelete
    \/ UserMove
    \/ UserMkdir
    \/ LockFile
    \/ UnlockFile
    \/ UserSidecar
    \/ HandleEvent
    \/ Fire
    \/ Complete
    \/ Stop

Spec == Init /\ [][Next]_vars

\* The mirror engine started on a file present on both sides, with a user
\* who only rewrites files and stops the engine: no file is held open,
\* deleted or renamed.  A timer that is armed expires, a copy or patch
\* that was started ends, and the dispatch thread handles what is queued.
RetryInit ==
    /\ Init
    /\ mode = "mirror"
    /\ \A side \in Sides : fs[Path(side, <<"f">>)].kind = "file"

RetryNext ==
    \/ UserModify
    \/ HandleEvent
    \/ Fire
    \/ Complete
    \/ Stop

RetrySpec ==
    /\ RetryInit
    /\ [][RetryNext]_vars
    /\ WF_vars(HandleEvent)
    /\ WF_vars(Fire)
    /\ WF_vars(Complete)

\* The engine with the end of an action in two steps, as the timer's thread
\* takes them: the write (shutil.copy2, bsdiff4.file_patch) and then, in
\* sync_file after time.sleep(0.25), the untracking of the path.  Between
\* the two the job is under way as "copied" or "patched".
Written(j) ==
    [j EXCEPT !.kind = IF j.kind = "copy" THEN "copied" ELSE "patched"]

\* The action up to the return of its write; an action that fails ends
\* here as in Complete.
Transfer ==
    \E j \in BagToSet(inflight) :
        /\ j.kind \in {"copy", "patch"}
        /\ LET s == St(j.cause)
               s0 == [s EXCEPT !.inflight = @ (-) SetToBag({j})]
               s1 == IF mode = "mirror"
                     THEN IF j.kind = "copy" THEN create_file(s0, j)
                          ELSE apply_patch(s0, j)
                     ELSE IF j.kind = "copy" THEN copy_file(s0, j)
                          ELSE fh_apply_patch(s0, j)
               s2 == IF s1.done = {} THEN s1
                     ELSE [s1 EXCEPT !.wf = s0.wf, !.wt = s0.wt,
                                     !.inflight = @ (+) SetToBag({Written(j)})]
           IN  /\ Commit(s2)
               /\ Record(s2, "write", j.path, j.kind, 0, 0, j.fresh)
               /\ SeqStep(s2.fs, {}, "-")
        /\ UNCHANGED <<mode, status, locked, ops, locks, conflict, launcher>>

\* untrack_work_file / untrack_file_copy at the end of the action
Finish ==
    \E j \in BagToSet(inflight) :
        /\ j.kind \in {"copied", "patched"}
        /\ LET s == St(j.cause)
               s0 == [s EXCEPT !.inflight = @ (-) SetToBag({j})]
               dest_path == get_dest_path(j.path, Other(j.path.root))
               s1 == IF mode = "mirror"
                     THEN IF j.kind = "copied"
                          THEN untrack_work_file(s0, j.path)
                          ELSE untrack_work_file(
                                 untrack_work_file(s0, j.path), dest_path)
                     ELSE untrack_file_copy(s0, j.path)
           IN  /\ Commit(s1)
               /\ Record(s1, "complete", j.path, j.kind, 0, 0, j.fresh)
               /\ SeqStep(s1.fs, {}, "-")
        /\ UNCHANGED <<mode, status, locked, ops, locks, conflict, launcher>>

\* timer threads that are carrying out an action at the same time
MaxJobs == 1

\* A timer expires while fewer than MaxJobs actions are under way.
StepFire == BagCardinality(inflight) < MaxJobs /\ Fire

StepNext ==
    \/ UserCreate
    \/ UserModify
    \/ HandleEvent
    \/ StepFire
    \/ Transfer
    \/ Finish

StepSpec == Init /\ [][StepNext]_vars

\* start_working_timer / start_copying_timer run by two threads at once
\* for one path: the dispatch thread ("event") and a Timer callback
\* ("timer").  Each thread takes three steps: cancel the timer the table
\* holds, store a new Timer in the table, start the timer the table holds.
\* The timer that was in the table ("old") has expired: it is the one whose
\* callback is running.  A Timer object is named after its creator.
ArmStep(r, th) ==
    IF r.pc[th] = 1
    THEN [r EXCEPT !.cancelled = @ \cup {r.tab}, !.pc[th] = 2]
    ELSE IF r.pc[th] = 2
    THEN [r EXCEPT !.tab = th, !.pc[th] = 3]
    ELSE [r EXCEPT !.started = @ \cup {r.tab},
                   !.raised = IF r.tab \in r.started THEN @ \cup {th}
                              ELSE @,
                   !.pc[th] = 4]

RECURSIVE ArmRun(_, _)
ArmRun(r, schedule) ==
    IF schedule = <<>> THEN r
    ELSE ArmRun(ArmStep(r, Head(schedule)), Tail(schedule))

\* what the two calls leave behind, for every order of their six steps:
\* the timer in the table and the timers that are armed
ArmOutcomes ==
    LET r0 == [tab |-> "old", started |-> {"old"}, cancelled |-> {},
               raised |-> {}, pc |-> [event |-> 1, timer |-> 1]]
        schedules == {q \in [1..6 -> {"event", "timer"}] :
                         Cardinality({i \in 1..6 : q[i] = "event"}) = 3}
    IN  {[tab |-> r.tab, armed |-> (r.started \ r.cancelled) \ {"old"}] :
            r \in {ArmRun(r0, q) : q \in schedules}}

\* An event for path p is handled while the callback of p's timer runs,
\* and both arm a timer for p: the handler through track_work_file /
\* track_file_copy, the callback because the size has changed.
RaceArm ==
    /\ status = "running"
    /\ queue # <<>>
    /\ Head(queue).src_path \in TreePaths
    /\ working_timers[Head(queue).src_path].st = "armed"
    /\ LET ev == Head(queue)
           p == ev.src_path
           s == [St(ev.origin) EXCEPT !.wt[p].st = "dead"]
           sf == IF mode = "mirror"
                 THEN create_complete(s, working_timers[p].kind, p)
                 ELSE check_copying_complete(s, working_timers[p].kind, p)
           s0 == Received(s, ev)
           se == IF mode = "mirror" THEN mirror_on_any_event(s0, ev)
                 ELSE fh_on_any_event(s0, ev)
       IN  /\ sf.wt[p].st = "armed" /\ sf.started = {} /\ sf.done = {}
           /\ se.wt[p].st = "armed" /\ se.wf[p] = sf.wf[p]
           /\ \E o \in ArmOutcomes :
                 LET kind(th) == IF th = "event" THEN se.wt[p].kind
                                 ELSE sf.wt[p].kind
                     s1 == [se EXCEPT
                              !.wt[p] = [kind |-> kind(o.tab),
                                         st |-> IF o.tab \in o.armed
                                                THEN "armed" ELSE "dead"],
                              !.stray = @ \cup
                                  {[path |-> p, kind |-> kind(th)] :
                                      th \in o.armed \ {o.tab}}]
                 IN  /\ Commit(s1)
                     /\ Record(s1, "race", p, ev.event_type, 0, 0, FALSE)
                     /\ SeqStep(s1.fs, {p}, ev.event_type)
    /\ UNCHANGED <<mode, status, locked, ops, locks, conflict, launcher>>

RaceNext ==
    \/ UserCreate
    \/ UserModify
    \/ HandleEvent
    \/ Fire
    \/ Complete
    \/ RaceArm

RaceSpec == Init /\ [][RaceNext]_vars

\* ----------------------------------------------------------- the launcher
\* The application before the engine runs: no file, no sidecar directory,
\* nothing tracked.
engine == <<mode, status, fs, patches, locked, working_files, working_timers,
            stray, queue, inflight, ops, locks, last, sinceEvt, origin, seq,
            conflict, rebuilt>>

EngineIdle ==
    /\ mode = "oneway"
    /\ status = "stopped"
    /\ fs = [p \in TreePaths |-> NoNode]
    /\ sidecar = [s \in Sides |-> FALSE]
    /\ patches = [s \in Sides |-> {}]
    /\ locked = {}
    /\ working_files = [p \in AllPaths |-> NoEntry]
    /\ working_timers = [p \in AllPaths |-> NoTimer]
    /\ stray = {}
    /\ queue = <<>>
    /\ inflight = EmptyBag
    /\ ops = 0
    /\ locks = 0
    /\ last = NoStep
    /\ sinceEvt = [p \in TreePaths |-> 0]
    /\ origin = [p \in AllPaths |-> "-"]
    /\ seq = [p \in TreePaths |-> "-"]
    /\ conflict = [r \in FileRels |-> NoConflict]
    /\ rebuilt = NoPath

AppInit ==
    /\ EngineIdle
    /\ window = NewWindow
    /\ handler = NewHandler
    /\ watcher = NewWatcher
    /\ threads = NoThreads
    /\ call = NoCall
    /\ observer = NewObserver

Called(a, op, by, m, source, destination) ==
    call' = [op |-> op, by |-> by, mode |-> m, source |-> source,
             destination |-> destination, directory |-> {},
             was_running |-> watcher.is_running, raised |-> a.raised]

\* The user chooses a directory with button A or B, or closes the dialog.
ButtonPath ==
    \E button \in {"alpha", "beta"}, current_path \in Dirs \cup {Cancelled} :
        /\ window.paths_enabled
        /\ LET a == [App EXCEPT !.window =
                        button_path_action(@, button, current_path)]
           IN  AppCommit(a) /\ Called(a, "path", "window", IDLE, None, None)
        /\ UNCHANGED <<engine, observer>>

\* The user presses one of the three mode buttons.
ModeSwitch ==
    \E m \in SyncModes :
        /\ window.paths_enabled
        /\ LET a == [App EXCEPT !.window = mode_switch(@, m)]
           IN  AppCommit(a) /\ Called(a, "mode", "window", IDLE, None, None)
        /\ UNCHANGED <<engine, observer>>

\* A main_button_action that leaves the button's text as it is when it
\* emits the start signal.
MainButton_text_unchanged ==
    \E confirm \in BOOLEAN :
        /\ window.action_enabled
        /\ IF window.text = "Stop"
           THEN LET a1 == stop_observer(App)
                    a2 == [a1 EXCEPT !.window =
                             toggle_buttons_enabled(
                               [@ EXCEPT !.text = "Synchronize"], TRUE, TRUE)]
                IN  /\ AppCommit(a2)
                    /\ Called(a2, "stop", "window", IDLE, None, None)
           ELSE IF state_ready(window) /\ confirm
           THEN LET d == set_directories(window)
                    a1 == [App EXCEPT !.window =
                             toggle_buttons_enabled(@, FALSE, TRUE)]
                    a2 == start_syncing(a1, d.mode, d.source, d.destination)
                IN  /\ threads.started < MaxStarts
                    /\ AppCommit(a2)
                    /\ Called(a2, "start", "window", d.mode, d.source,
                              d.destination)
           ELSE /\ AppCommit(App)
                /\ Called(App, "declined", "window", IDLE, None, None)
        /\ UNCHANGED <<engine, observer>>

\* main_button_action: the user presses the main button and, to start,
\* answers the confirmation dialog.  The signals are connected directly:
\* the slot of main.py runs inside emit, and an exception it raises is
\* reported and does not leave emit.
MainButton ==
    \E confirm \in BOOLEAN :
        /\ window.action_enabled
        /\ IF window.text = "Stop"
           THEN LET a1 == stop_observer(App)
                    a2 == [a1 EXCEPT !.window =
                             toggle_buttons_enabled(
                               [@ EXCEPT !.text = "Synchronize"], TRUE, TRUE)]
                IN  /\ AppCommit(a2)
                    /\ Called(a2, "stop", "window", IDLE, None, None)
           ELSE IF state_ready(window) /\ confirm
           THEN LET d == set_directories(window)
                    a1 == [App EXCEPT !.window =
                             toggle_buttons_enabled(
                               [@ EXCEPT !.text = "Stop"], FALSE, TRUE)]
                    a2 == start_syncing(a1, d.mode, d.source, d.destination)
                IN  /\ threads.started < MaxStarts
                    /\ AppCommit(a2)
                    /\ Called(a2, "start", "window", d.mode, d.source,
                              d.destination)
           ELSE /\ AppCommit(App)
                /\ Called(App, "declined", "window", IDLE, None, None)
        /\ UNCHANGED <<engine, observer>>

\* start_syncing called as the tests call it, without the window, for two
\* different directories.
StartSyncing ==
    \E m \in SyncModes, source \in Dirs, destination \in Dirs :
        /\ source # destination
        /\ threads.started < MaxStarts
        /\ LET a == start_syncing(App, m, source, destination)
           IN  AppCommit(a) /\ Called(a, "start", "api", m, source, destination)
        /\ UNCHANGED <<engine, observer>>

\* stop_observer called without the window.
StopObserver ==
    /\ LET a == stop_observer(App)
       IN  AppCommit(a) /\ Called(a, "stop", "api", IDLE, None, None)
    /\ UNCHANGED <<engine, observer>>

\* A thread started by start_syncing gets to run observer.run().
RunThread ==
    /\ threads.pending > 0
    /\ LET a == watcher_run([App EXCEPT !.threads.pending = @ - 1])
       IN  AppCommit(a) /\ Called(a, "run", "thread", IDLE, None, None)
    /\ UNCHANGED <<engine, observer>>

AppNext ==
    \/ ButtonPath
    \/ ModeSwitch
    \/ MainButton
    \/ StartSyncing
    \/ StopObserver
    \/ RunThread

AppSpec == AppInit /\ [][AppNext]_vars

\* ----------------------------------------------- the observer of observer.py
ObsStep(op, arg, raised) ==
    /\ call' = [NoCall EXCEPT !.op = op, !.by = "api", !.raised = raised,
                              !.directory = arg,
                              !.was_running = observer.is_running]
    /\ UNCHANGED <<engine, sidecar, window, handler, watcher, threads>>

\* run() is called in a thread of its own: self.observer = Observer()
ObsRun ==
    /\ observer.pc \in {"idle", "returned"}
    /\ observer' = [observer EXCEPT !.pc = "begun"]
    /\ ObsStep("run", {}, FALSE)

\* observer.schedule for the directory, or for the two of the list
ObsSchedule ==
    /\ observer.pc = "begun"
    /\ observer' = [observer EXCEPT !.pc = "scheduled",
                                    !.watching = observer.directory]
    /\ ObsStep("schedule", {}, FALSE)

\* observer.start(); self._is_running = True
ObsStart ==
    /\ observer.pc = "scheduled"
    /\ observer' = [observer EXCEPT !.pc = "loop", !.is_running = TRUE]
    /\ ObsStep("started", {}, FALSE)

\* the loop sees the stop event: observer.stop(); observer.join()
ObsLeaveLoop ==
    /\ observer.pc = "loop"
    /\ observer.stop_event
    /\ observer' = [observer EXCEPT !.pc = "stopping", !.watching = {}]
    /\ ObsStep("left", {}, FALSE)

\* self._is_running = False, and run() returns
ObsReturn ==
    /\ observer.pc = "stopping"
    /\ observer' = [observer EXCEPT !.pc = "returned", !.is_running = FALSE]
    /\ ObsStep("returned", {}, FALSE)

\* stop(): self._stop_event.set()
ObsStop ==
    /\ observer' = [observer EXCEPT !.stop_event = TRUE]
    /\ ObsStep("stop", {}, FALSE)

SetDirectory ==
    \E new_directory \in Directories :
        LET r == set_directory(observer, new_directory)
        IN  /\ observer' = r.o
            /\ ObsStep("set_directory", new_directory, r.raised)

ObsNext ==
    \/ ObsRun
    \/ ObsSchedule
    \/ ObsStart
    \/ ObsLeaveLoop
    \/ ObsReturn
    \/ ObsStop
    \/ SetDirectory

ObsSpec == AppInit /\ [][ObsNext]_vars

Quiescent ==
    /\ status = "running"
    /\ queue = <<>>
    /\ ArmedTimers = {}
    /\ inflight = EmptyBag

\* ------------------------------------------------------------ properties
ReplicationActions == {"copy", "patch", "move", "delete"}

Equal(r) == fs[Path("A", r)] = fs[Path("B", r)]

\* C1: in mirror mode no step that goes back solely to the engine's own
\* write (the event of the write, the timer that event armed, the copy or
\* patch that timer started) carries out a copy, patch, move or delete.
C1_NoSelfLoop ==
    ~(/\ mode = "mirror"
      /\ last.cause = "engine"
      /\ last.done \cap ReplicationActions # {})

\* C2: one-way, at quiescence (no event queued, no timer armed, no copy or
\* patch under way) of a run in which no file was held open: every file of
\* the source has an identical copy in the destination and every path of
\* the destination exists in the source.
C2_OneWayEquality ==
    (mode = "oneway" /\ Quiescent /\ locks = 0) =>
        \A r \in UserRels :
            /\ fs[Path("A", r)].kind = "file" => Equal(r)
            /\ fs[Path("B", r)].kind # "none" => fs[Path("A", r)].kind # "none"

\* C3: mirror, at quiescence of a run in which no file was held open: the
\* two trees hold the same paths with the same contents.
C3_MirrorEquality ==
    (mode = "mirror" /\ Quiescent /\ locks = 0) =>
        \A r \in UserRels : Equal(r)

\* C4: mirror, at quiescence of a run in which no file was held open: a
\* file edited on both sides within one debounce window has on both sides
\* the content of the later edit.
C4_LaterEditWins ==
    (mode = "mirror" /\ Quiescent /\ locks = 0) =>
        \A r \in FileRels :
            conflict[r].st = "both" =>
                /\ fs[Path("A", r)] = conflict[r].node
                /\ fs[Path("B", r)] = conflict[r].node

\* C5: of the copies and patches started after the last event on a path,
\* at most one is carried out.
C5_DebounceStability ==
    \A p \in TreePaths : sinceEvt[p] <= 1

\* C6: once stop has returned no timer is armed, the debounce tables are
\* empty and no step carries out a copy, patch, delete or move.
C6_CancellationComplete ==
    status = "stopped" =>
        /\ ArmedTimers = {}
        /\ \A p \in AllPaths :
              working_files[p] = NoEntry /\ working_timers[p] = NoTimer
        /\ last.done \cap ReplicationActions = {}

\* C7: once stop has returned the sidecar directories do not exist.
C7_SidecarsGone ==
    status = "stopped" => \A side \in Sides : ~sidecar[side]

\* C8: no path below a sidecar directory has a debounce entry or a timer,
\* and the handling of an event on such a path carries out no action and
\* starts none, in both handlers and for every kind of event.
C8_SidecarIsolation ==
    /\ \A p \in SidecarPaths :
          working_files[p] = NoEntry /\ working_timers[p] = NoTimer
    /\ (last.op = "event" /\ InSidecar(last.path)) =>
          last.done = {} /\ last.started = {}

\* C8 witness: an event on a sidecar path has just been handled.
C8_Witness ==
    /\ last.op = "event"
    /\ InSidecar(last.path)
    /\ last.kind = MOVED

C10_CreateThenDelete ==
    \A p \in TreePaths :
        seq[p] = "cd" =>
            /\ \A j \in BagToSet(inflight) : j.path = p => ~j.fresh
            /\ (last.path = p /\ last.op \in {"fire", "complete"}) =>
                   last.started = {} /\ last.done = {}

\* C10 witness: the timer fires after the created and the deleted event.
C10_Witness ==
    /\ last.op = "fire"
    /\ seq[last.path] = "cd"

\* C11: the timer of a modified file fires, the size is the recorded one,
\* and the destination file, which no process holds open, is larger than
\* the source.  The step deletes the destination file and its patch file,
\* starts and carries out no patch and arms the timer that leads to
\* create_file; a copy that is carried out leaves the destination with the
\* content of the source; and when the engine has come to rest without
\* another step of the user, the destination holds what the source holds.
C11_Fired(p) ==
    LET dest_path == get_dest_path(p, Other(p.root))
    IN  (/\ last'.op = "fire" /\ last'.kind = MODIFIED /\ last'.path = p
         /\ last'.cur # NoEntry
         /\ last'.cur = (IF last'.prev = NoEntry THEN 0 ELSE last'.prev)
         /\ fs[p].kind = "file" /\ fs[dest_path].kind = "file"
         /\ fs[dest_path].size > fs[p].size
         /\ dest_path \notin locked)
        => /\ fs'[dest_path].kind = "none"
           /\ <<with_suffix_patch(p.rel)[2]>> \notin patches'[dest_path.root]
           /\ last'.started = {}
           /\ "patch" \notin last'.done
           /\ working_timers'[p] = Timer(CREATED)
           /\ rebuilt' = p

C11_Copied ==
    (last.op = "complete" /\ "copy" \in last.done) =>
        fs[get_dest_path(last.path, Other(last.path.root))] = fs[last.path]

C11_AtRest ==
    (Quiescent /\ rebuilt # NoPath /\ locks = 0) =>
        fs[get_dest_path(rebuilt, Other(rebuilt.root))] = fs[rebuilt]

C12_NoLingeringPatch ==
    Quiescent => \A side \in Sides : patches[side] = {}

\* C13: once a moved event old -> new of a watched tree has been handled,
\* in a run in which no file was held open, the destination tree holds the
\* mapped new path and not the mapped old path, and the handling has
\* started no copy.
C13_MoveReplicated ==
    [][(/\ status = "running"
        /\ locks = 0
        /\ queue # <<>>
        /\ Head(queue).event_type = MOVED
        /\ ~InSidecar(Head(queue).src_path)
        /\ last'.op = "event")
       => LET ev == Head(queue)
              dest == Other(get_directories(ev.src_path))
          IN  /\ fs'[get_dest_path(ev.dest_path, dest)].kind # "none"
              /\ fs'[get_dest_path(ev.src_path, dest)].kind = "none"
              /\ last'.started = {}]_vars

\* C14: a start from the window in BtoA mode, with directory A chosen as
\* path A and directory B as path B, leaves the handler with B as its
\* source, A as its destination, the sidecar directory below A, and the
\* observer with B as its directory.
C14_BtoAFlowsFromB ==
    (/\ call.op = "start" /\ call.by = "window" /\ call.mode = BTOA
     /\ window.alpha_path = "A" /\ window.beta_path = "B") =>
        /\ handler.source = "B"
        /\ handler.destination = "A"
        /\ handler.patch_path = "A"
        /\ sidecar["A"]
        /\ watcher.directory = "B"

\* C15: a start in Mirror mode with paths A and B leaves the mirror handler
\* with dir_a = A and dir_b = B, a sidecar directory below each, and the
\* observer with both roots to watch, when the watcher thread is started.
C15_MirrorConfigured ==
    (call.op = "start" /\ call.mode = MIRROR) =>
        /\ handler.dir_a = call.source
        /\ handler.dir_b = call.destination
        /\ sidecar[call.source] /\ sidecar[call.destination]
        /\ {call.source, call.destination} \subseteq {watcher.directory}

\* C16: the window emits the start signal only with path A and path B both
\* set and different and a mode chosen, and the roots it passes differ.
C16_StartOnlyWhenReady ==
    (call.op = "start" /\ call.by = "window") =>
        /\ window.alpha_path # None
        /\ window.beta_path # None
        /\ window.alpha_path # window.beta_path
        /\ window.mode # IDLE
        /\ call.mode = window.mode
        /\ {call.source, call.destination}
              = {window.alpha_path, window.beta_path}
        /\ call.source # call.destination

\* C16 witness: the window starts the engine a second time, after a stop.
C16_Witness ==
    /\ call.op = "start"
    /\ call.by = "window"
    /\ threads.started = 2

\* C17: a start request made while the observer is running raises, starts
\* no thread and leaves the handler and the sidecar directories as they
\* are.
C17_SecondStartRefused ==
    [][(call'.op = "start" /\ watcher.is_running)
       => /\ call'.raised
          /\ threads' = threads
          /\ handler' = handler
          /\ sidecar' = sidecar]_vars

\* C18: a stop of an engine that was never started, or that a stop before
\* has already stopped, raises nothing and changes nothing.
C18_StopIdempotent ==
    [][(/\ call'.op = "stop"
        /\ \/ threads.started = 0
           \/ call.op = "stop" /\ ~call.raised)
       => /\ ~call'.raised
          /\ handler' = handler
          /\ watcher' = watcher
          /\ threads' = threads
          /\ sidecar' = sidecar]_vars

\* C19: no exception leaves the event handler, a timer's callback or the
\* copy or patch it starts.
C19_NoErrorEscapes ==
    ~last.raised

\* C20: set_directory called while the thread is inside run() raises and
\* leaves the directory as it is; called at any other time it replaces the
\* directory.
C20_SetDirectoryGuard ==
    [][(call'.op = "set_directory")
       => IF observer.pc \in InRun
          THEN call'.raised /\ observer'.directory = observer.directory
          ELSE ~call'.raised /\ observer'.directory = call'.directory]_vars

\* C21: once stop() has been invoked and the watcher thread has ended, so
\* that the join in run() has returned, is_running is false, whether stop()
\* came before run() was entered or after.
C21_StopEndsRun ==
    watcher.thread = "stopped" => ~watcher.is_running

\* C22: when MirrorHandler.cleanup() has run, neither side's sidecar
\* directory exists and patch_path_a and patch_path_b are both None.
C22_MirrorCleanup ==
    (mode = "mirror" /\ last.op = "stop") =>
        /\ ~sidecar["A"]
        /\ ~sidecar["B"]
        /\ handler.patch_path_a = None
        /\ handler.patch_path_b = None

\* C23: when the copy of a created file whose size was stable fails because
\* the file or its destination is held open by another process, nothing is
\* copied and the path stays tracked: its debounce entry is present and its
\* timer is armed again, in both handlers.
C23_CopyRetried ==
    [][\A p \in TreePaths :
         (/\ last'.op = "complete" /\ last'.kind = "copy" /\ last'.path = p
          /\ fs[p].kind = "file"
          /\ \/ p \in locked
             \/ get_dest_path(p, Other(p.root)) \in locked)
         => /\ "copy" \notin last'.done
            /\ working_files'[p] # NoEntry
            /\ working_timers'[p] = Timer(CREATED)]_vars

\* C24: a path has a debounce entry if and only if a timer is armed for it
\* or the copy or patch its timer has started is still under way: no entry
\* is left behind without a timer, and no timer runs without an entry.
C24_EntryIffTimer ==
    \A p \in AllPaths :
        (working_files[p] # NoEntry) <=>
            \/ \E t \in ArmedTimers : t.path = p
            \/ \E j \in BagToSet(inflight) : j.path = p

\* C25: once the deleted event of a path p of a watched tree (p is gone, no
\* file was held open in the run) has been handled, p has no debounce entry
\* and no armed timer and the mapped destination path does not exist, also
\* when p was tracked when the event arrived; in both handlers.
C25_DeleteCancels ==
    [][(/\ status = "running"
        /\ locks = 0
        /\ queue # <<>>
        /\ Head(queue).event_type = DELETED
        /\ ~InSidecar(Head(queue).src_path)
        /\ fs[Head(queue).src_path].kind = "none"
        /\ last'.op = "event")
       => LET p == Head(queue).src_path
              dest_path == get_dest_path(p, Other(get_directories(p)))
          IN  /\ working_files'[p] = NoEntry
              /\ working_timers'[p].st # "armed"
              /\ fs'[dest_path].kind = "none"]_vars

\* C26: once a moved event old -> new of a watched tree has been handled
\* (no file was held open in the run), the old path has no debounce entry
\* and no armed timer; and when the engine has come to rest, a file g, which
\* only a rename brings about, is present at the mapped destination path.
C26_OldPathForgotten ==
    (/\ status = "running"
     /\ locks = 0
     /\ queue # <<>>
     /\ Head(queue).event_type = MOVED
     /\ ~InSidecar(Head(queue).src_path)
     /\ last'.op = "event")
    => LET old == Head(queue).src_path
       IN  /\ working_files'[old] = NoEntry
           /\ working_timers'[old].st # "armed"

C26_RenamedArrives ==
    (Quiescent /\ locks = 0) =>
        \A p \in TreePaths :
            (p.root \in Watched /\ p.rel = <<"g">> /\ fs[p].kind = "file")
            => fs[get_dest_path(p, Other(p.root))].kind = "file"

C26_MoveCancels ==
    [][C26_OldPathForgotten]_vars /\ []C26_RenamedArrives

\* C27: the handling of a modified event for a file path that has a
\* debounce entry, whatever size the entry records (0 included), leaves the
\* entry and the timer of the path as they are and carries out and starts
\* nothing.
C27_ModifiedWhileTracked ==
    [][(/\ status = "running"
        /\ queue # <<>>
        /\ Head(queue).event_type = MODIFIED
        /\ ~Head(queue).is_directory
        /\ ~InSidecar(Head(queue).src_path)
        /\ working_files[Head(queue).src_path] # NoEntry
        /\ last'.op = "event")
       => LET p == Head(queue).src_path
          IN  /\ working_files'[p] = working_files[p]
              /\ working_timers'[p] = working_timers[p]
              /\ last'.done = {}
              /\ last'.started = {}]_vars

\* C28: from the handling of a file's created event until its timer fires,
\* whatever modified events for the file are handled in between, the timer
\* armed for the file is of kind created: the one action pending is the
\* create_file copy, and no sync_file, which patches, is pending.
C28_CreatedCollapses ==
    \A p \in TreePaths :
        (seq[p] = "c" /\ working_timers[p].st = "armed") =>
            working_timers[p].kind = CREATED

\* C29: when a timer fires for a non-empty file that another process holds
\* open, so that the size cannot be sampled, the firing starts and carries
\* out no replication action and leaves the timer of the path armed again.
C29_LockedStillInFlight ==
    [][\A p \in TreePaths :
         (/\ last'.op = "fire" /\ last'.path = p
          /\ fs[p].kind = "file" /\ fs[p].size > 0
          /\ p \in locked)
         => /\ last'.started = {}
            /\ last'.done = {}
            /\ working_timers'[p].st = "armed"]_vars

\* C30: when a timer fires for a path at which nothing exists any more, the
\* firing starts and carries out no action, and afterwards the path has no
\* debounce entry and no armed timer, as a path that was never tracked.
C30_GoneFileDropped ==
    [][\A p \in TreePaths :
         (/\ last'.op = "fire" /\ last'.path = p
          /\ fs[p].kind = "none")
         => /\ last'.started = {}
            /\ last'.done = {}
            /\ working_files'[p] = NoEntry
            /\ working_timers'[p].st # "armed"]_vars

\* C31: in mirror mode, once the engine has come to rest (no event queued,
\* no timer armed, no copy or patch under way; no file was held open), no
\* existing file is left with a truthy entry in working_files, which would
\* make the handler ignore every later event on it.
C31_SuppressionCleared ==
    (mode = "mirror" /\ Quiescent /\ locks = 0) =>
        \A p \in TreePaths :
            fs[p].kind = "file" =>
                (working_files[p] = NoEntry \/ working_files[p] = 0)

\* C32: in mirror mode, every step that carries out a replication action
\* (copy, patch, move or delete) for a source path finds, in the state it
\* starts from, a truthy working_files entry for the destination path it
\* is about to write.
C32_DestSuppressedAtWrite ==
    [][(mode = "mirror" /\ last'.done \cap ReplicationActions # {}) =>
         LET d == get_dest_path(last'.path, Other(last'.path.root))
         IN  working_files[d] > 0]_vars

\* C33: in mirror mode, the handling of a modified event for a file whose
\* counterpart on the other side exists with the same size changes neither
\* working_files nor working_timers nor the file trees, and neither starts
\* nor carries out an action.
C33_SameSizeDropped ==
    [][(/\ mode = "mirror"
        /\ queue # <<>>
        /\ last'.op = "event"
        /\ Head(queue).event_type = MODIFIED
        /\ ~Head(queue).is_directory
        /\ Head(queue).src_path \in TreePaths
        /\ LET p == Head(queue).src_path
               d == get_dest_path(p, Other(p.root))
           IN  /\ fs[p].kind = "file"
               /\ fs[d].kind = "file"
               /\ fs[d].size = fs[p].size) =>
          /\ working_files' = working_files
          /\ working_timers' = working_timers
          /\ stray' = stray
          /\ BagCardinality(inflight') = BagCardinality(inflight)
          /\ fs' = fs
          /\ patches' = patches
          /\ last'.done = {}
          /\ last'.started = {}]_vars

\* C33 happens: the event just handled was a modified event of the user
\* for an untracked file whose counterpart has the same size and another
\* content.
C33_Witness ==
    /\ mode = "mirror"
    /\ last.op = "event"
    /\ last.kind = MODIFIED
    /\ last.cause = "user"
    /\ last.path \in TreePaths
    /\ fs[last.path].kind = "file"
    /\ LET d == get_dest_path(last.path, Other(last.path.root))
       IN  /\ fs[d].kind = "file"
           /\ fs[d].size = fs[last.path].size
           /\ fs[d] # fs[last.path]
    /\ working_files[last.path] = NoEntry
    /\ working_timers[last.path] = NoTimer

\* C34: a patch that ends while its two files exist unlocked and the
\* destination's sidecar directory is missing leaves the directory created
\* and a modified timer armed for the path, its entry untouched; and from
\* every such state the destination comes to equal the source.
C34_Recreated ==
    (/\ mode = "mirror"
     /\ last'.op = "complete"
     /\ last'.kind = "patch"
     /\ LET p == last'.path
            d == get_dest_path(p, Other(p.root))
        IN  /\ fs[p].kind = "file" /\ fs[d].kind = "file"
            /\ p \notin locked /\ d \notin locked
            /\ ~sidecar[d.root]) =>
       LET p == last'.path
           d == get_dest_path(p, Other(p.root))
       IN  /\ sidecar'[d.root]
           /\ working_timers'[p] = Timer(MODIFIED)
           /\ working_files'[p] = working_files[p]
           /\ fs' = fs
           /\ last'.done = {}

\* the patch for path p has just failed for want of the sidecar directory
C34_Failed(p) ==
    /\ mode = "mirror"
    /\ last.op = "complete"
    /\ last.kind = "patch"
    /\ last.path = p
    /\ last.done = {}
    /\ fs[p].kind = "file"
    /\ fs[get_dest_path(p, Other(p.root))].kind = "file"
    /\ p \notin locked
    /\ get_dest_path(p, Other(p.root)) \notin locked
    /\ working_timers[p] = Timer(MODIFIED)

C35_OneActionPerPath ==
    \A j, k \in BagToSet(inflight) :
        j.path = k.path => (j = k /\ CopiesIn(j, inflight) = 1)

\* C36: when an action for a file has just untracked the path, an event on
\* the file was handled while the action was under way, and nothing is
\* queued, armed or under way any more, the destination holds the content
\* the file has now.
C36_ChangeDuringAction ==
    (/\ Quiescent
     /\ last.op = "complete"
     /\ last.kind \in {"copied", "patched"}
     /\ ~last.fresh
     /\ fs[last.path].kind = "file") =>
        fs[get_dest_path(last.path, Other(last.path.root))] = fs[last.path]

\* C37: every armed timer is the one the timer table holds for its path,
\* so that no path has two armed timers.
C37_OneTimerPerPath == \A t \in ArmedTimers : t.ref

\* C38: the step in which a copy or a patch is carried out, and so untracks
\* its source path, leaves the path with no entry in working_files and
\* none in working_timers.
C38_UntrackedClean ==
    [][(last'.op = "complete" /\ last'.done # {}) =>
          /\ working_files'[last'.path] = NoEntry
          /\ working_timers'[last'.path] = NoTimer]_vars

\* C39: the window emits the start signal only while its main button does
\* not read "Stop", and the button then reads "Stop"; it emits the stop
\* signal only while the button reads "Stop", and the button then reads
\* "Synchronize"; no other step changes what the button reads.  The button
\* does not read "Stop" at first, so the two signals alternate, start
\* first.
C39_SignalsAlternate ==
    [][/\ (call'.by = "window" /\ call'.op = "start") =>
             (window.text # "Stop" /\ window'.text = "Stop")
       /\ (call'.by = "window" /\ call'.op = "stop") =>
             (window.text = "Stop" /\ window'.text = "Synchronize")
       /\ ~(call'.by = "window" /\ call'.op \in {"start", "stop"}) =>
             window'.text = window.text]_vars

\* C39 happens: the window has emitted start, stop, start and stop.
C39_Witness ==
    /\ call.by = "window"
    /\ call.op = "stop"
    /\ threads.started = 2
    /\ window.text = "Synchronize"

\* C40: a run() of the observer whose earlier run was ended by stop()
\* leaves the observer running and watching its directory.
C40_RestartWatches ==
    [][(/\ call'.op = "run"
        /\ watcher.thread = "stopped"
        /\ ~watcher.is_running
        /\ watcher.directory # None) =>
          /\ watcher'.is_running
          /\ watcher.directory \in watcher'.watching]_vars

TypeOK ==
    /\ mode \in {"oneway", "mirror"}
    /\ ops \in 0..MaxOps
    /\ \A p \in AllPaths : working_files[p] \in -1..MaxSize

====
